---- MODULE Spec2Model ----
(***************************************************************************)
(* Model of src/app.py: the Excel-sheets-to-PDF converter.                 *)
(*                                                                         *)
(* Text is a sequence of Unicode code points.  A cell is a record         *)
(* [t, s, n]: t = "empty" (an empty cell of a stored sheet), "nan" (a      *)
(* missing value of a DataFrame), "none" (Python None), "str" (text s) or  *)
(* "int" (number n).  The cells of the stored sheets are empty or text;    *)
(* numbers reach reshape_rtl only in the helper-function specification     *)
(* (for sheet cells pandas' dtype promotion, not app.py, decides their     *)
(* text form).                                                             *)
(***************************************************************************)
EXTENDS Integers, Sequences, FiniteSets, TLC

----------------------------------------------------------------------------
(* Bounds of the model *)

MaxSheets == 3

MaxCols == 7

MaxNameLen == 3

MaxGridCols == 2

MaxGridRows == 2

----------------------------------------------------------------------------
(* Program constants *)

LandscapeThreshold == 6

----------------------------------------------------------------------------
(* Code points used by the model *)

BEH == 1576

ALEF == 1575

\* invalid = r'\/:*?"<>|'   (line 51)
invalid == {92, 47, 58, 42, 63, 34, 60, 62, 124}

\* the characters str.strip() removes (str.isspace)
Whitespace == {9, 10, 11, 12, 13, 28, 29, 30, 31, 32, 133, 160}

\* "sheet"
DefaultName == <<115, 104, 101, 101, 116>>

\* ".pdf"
PdfSuffix == <<46, 112, 100, 102>>

\* "Unnamed: "
UnnamedPrefix == <<85, 110, 110, 97, 109, 101, 100, 58, 32>>

EmptyText == <<>>

----------------------------------------------------------------------------
(* Generic text helpers *)

RECURSIVE Remove(_, _)
Remove(s, drop) ==
  IF s = <<>> THEN <<>>
  ELSE IF Head(s) \in drop THEN Remove(Tail(s), drop)
       ELSE <<Head(s)>> \o Remove(Tail(s), drop)

RECURSIVE LStrip(_)
LStrip(s) ==
  IF s = <<>> THEN <<>>
  ELSE IF Head(s) \in Whitespace THEN LStrip(Tail(s)) ELSE s

Reverse(s) == [k \in 1..Len(s) |-> s[Len(s) + 1 - k]]

\* str.strip()
Strip(s) == Reverse(LStrip(Reverse(LStrip(s))))

RECURSIVE Digits(_)
Digits(n) ==
  IF n < 10 THEN <<48 + n>> ELSE Digits(n \div 10) \o <<48 + (n % 10)>>

\* str(n) for an integer
IntToText(n) == IF n < 0 THEN <<45>> \o Digits(0 - n) ELSE Digits(n)

----------------------------------------------------------------------------
(* allowed_file, sanitize_filename *)

ALLOWED_EXTENSIONS == {"xls", "xlsx"}

\* A filename is [stem, ext]; ext = "" stands for a name without a dot.
allowed_file(filename) == filename.ext # "" /\ filename.ext \in ALLOWED_EXTENSIONS

sanitize_filename_keep_illegal(name) ==
  IF Strip(name) = <<>> THEN DefaultName ELSE Strip(name)

sanitize_filename(name) ==
  IF Strip(Remove(name, invalid)) = <<>> THEN DefaultName
  ELSE Strip(Remove(name, invalid))

----------------------------------------------------------------------------
(* reshape_rtl *)

IsArabic(ch) ==
  \/ (1536 <= ch /\ ch <= 1791)
  \/ (1872 <= ch /\ ch <= 1919)
  \/ (2208 <= ch /\ ch <= 2303)

HasArabic(s) == \E k \in 1..Len(s) : IsArabic(s[k])

\* Letters that join to the following letter (BEH does, ALEF does not).
JoinsNext(ch) == ch = BEH

\* arabic_reshaper.reshape on the letters of the model: each letter takes
\* its isolated / final / initial / medial presentation form.
PresentationForm(ch, joinPrev, joinNext) ==
  IF ch = BEH THEN
     (IF joinPrev /\ joinNext THEN 65170
      ELSE IF joinPrev THEN 65168
      ELSE IF joinNext THEN 65169 ELSE 65167)
  ELSE IF ch = ALEF THEN (IF joinPrev THEN 65166 ELSE 65165)
  ELSE ch

Reshape(s) ==
  [k \in 1..Len(s) |->
     PresentationForm(s[k],
        k > 1 /\ JoinsNext(s[k - 1]),
        k < Len(s) /\ JoinsNext(s[k]) /\ s[k + 1] \in {BEH, ALEF})]

\* bidi get_display for a text made of right-to-left letters and neutral,
\* unmirrored characters only (the texts of the model that hold an Arabic
\* letter): the visual order is the reverse of the logical order.
GetDisplay(s) == Reverse(s)

\* str(text) of line 61
Str(cell) ==
  IF cell.t = "str" THEN cell.s
  ELSE IF cell.t = "int" THEN IntToText(cell.n)
  ELSE IF cell.t = "nan" THEN <<110, 97, 110>>
  ELSE <<78, 111, 110, 101>>

reshape_rtl(text) ==
  IF text.t = "none" THEN EmptyText
  ELSE IF HasArabic(Str(text)) THEN GetDisplay(Reshape(Str(text)))
  ELSE Str(text)

----------------------------------------------------------------------------
(* Cells, sheets and DataFrames *)

EmptyCell == [t |-> "empty", s |-> <<>>, n |-> 0]

NaN == [t |-> "nan", s |-> <<>>, n |-> 0]

None == [t |-> "none", s |-> <<>>, n |-> 0]

TextCell(s) == [t |-> "str", s |-> s, n |-> 0]

IntCell(n) == [t |-> "int", s |-> <<>>, n |-> n]

\* pd.isna
isna(cell) == cell.t \in {"nan", "none"}

RECURSIVE TrimRow(_)
TrimRow(row) ==
  IF row = <<>> THEN <<>>
  ELSE IF row[Len(row)] = EmptyCell THEN TrimRow(SubSeq(row, 1, Len(row) - 1))
       ELSE row

SetMax(S) == IF S = {} THEN 0 ELSE CHOOSE m \in S : \A x \in S : x <= m

\* The rows the parser hands to pandas: trailing empty cells and trailing
\* empty rows are dropped, shorter rows are padded to the widest row.
SheetData(grid) ==
  LET last  == SetMax({r \in 1..Len(grid) : TrimRow(grid[r]) # <<>>})
      width == SetMax({Len(TrimRow(grid[r])) : r \in 1..last})
  IN  [r \in 1..last |->
         [c \in 1..width |->
            IF c <= Len(grid[r]) THEN grid[r][c] ELSE EmptyCell]]

\* pd.read_excel(input_path, sheet_name=...): the first row gives the column
\* labels (an empty header cell is labelled "Unnamed: <position>"), the
\* other rows are the data, empty cells read as NaN.
read_excel(grid) ==
  LET data == SheetData(grid)
  IN  IF data = <<>> THEN [columns |-> <<>>, rows |-> <<>>]
      ELSE [columns |->
              [c \in 1..Len(data[1]) |->
                 IF data[1][c] = EmptyCell
                 THEN TextCell(UnnamedPrefix \o IntToText(c - 1))
                 ELSE data[1][c]],
            rows |->
              [r \in 1..(Len(data) - 1) |->
                 [c \in 1..Len(data[1]) |->
                    IF data[r + 1][c] = EmptyCell THEN NaN
                    ELSE data[r + 1][c]]]]

\* df.dropna(how='all').empty  (line 137)
IsEmptySheet(df) ==
  \/ Len(df.columns) = 0
  \/ \A r \in 1..Len(df.rows) : \A c \in 1..Len(df.columns) : isna(df.rows[r][c])

df_to_table_data_no_isna(df) ==
  <<[c \in 1..Len(df.columns) |-> reshape_rtl(df.columns[c])]>>
  \o [r \in 1..Len(df.rows) |->
        [c \in 1..Len(df.columns) |-> reshape_rtl(df.rows[r][c])]]

df_to_table_data(df) ==
  <<[c \in 1..Len(df.columns) |-> reshape_rtl(df.columns[c])]>>
  \o [r \in 1..Len(df.rows) |->
        [c \in 1..Len(df.columns) |->
           IF isna(df.rows[r][c]) THEN EmptyText
           ELSE reshape_rtl(df.rows[r][c])]]

\* lines 150-156
PageSize_off_by_one(data) ==
  IF Len(data[1]) >= LandscapeThreshold THEN "landscape(A4)" ELSE "A4"

PageSize(data) ==
  IF Len(data[1]) > LandscapeThreshold THEN "landscape(A4)" ELSE "A4"

----------------------------------------------------------------------------
(* Inputs of the convert request *)

LatinText(c) == <<96 + c>>

\* c letters BEH followed by ALEF: a different Arabic word for each column
ArabicText(c) == [k \in 1..(c + 1) |-> IF k <= c THEN BEH ELSE ALEF]

FullRow(w) == [c \in 1..w |-> TextCell(LatinText(c))]

BlankRow(w) == [c \in 1..w |-> EmptyCell]

\* An Arabic name, the same name followed by a double quote (both sanitize
\* to the Arabic name) and the name | (sanitizes to the default name).
SheetNames == { <<BEH, ALEF>>, <<BEH, ALEF, 34>>, <<124>> }

Widths == LandscapeThreshold..MaxCols

SheetGrids ==
  { <<>>,                                              \* no cells at all
    <<BlankRow(2), BlankRow(2)>>,                      \* only empty cells
    <<FullRow(2)>>,                                    \* a header row only
    <<BlankRow(2), <<EmptyCell, TextCell(LatinText(24))>>>>,
    <<<<TextCell(ArabicText(1)), TextCell(ArabicText(2))>>,
      <<TextCell(ArabicText(1)), EmptyCell>>>> }
  \cup { <<FullRow(w), FullRow(w)>> : w \in Widths }

RECURSIVE SeqsUpTo(_, _)
SeqsUpTo(S, n) ==
  IF n = 0 THEN {<<>>}
  ELSE SeqsUpTo(S, n - 1)
       \cup {Append(q, x) : q \in {p \in SeqsUpTo(S, n - 1) : Len(p) = n - 1},
                            x \in S}

\* Up to MaxSheets sheets; sheet names are unique within a workbook.
Workbooks ==
  UNION { { [k \in 1..n |-> [name |-> ns[k], grid |-> gs[k]]] :
              ns \in {f \in [1..n -> SheetNames] :
                        \A j, k \in 1..n : j # k => f[j] # f[k]},
              gs \in [1..n -> SheetGrids] } :
          n \in 0..MaxSheets }

NoFilename == [stem |-> "", ext |-> ""]

Filenames ==
  {NoFilename} \cup [stem : {"book"}, ext : {"", "txt", "xls", "xlsx"}]

----------------------------------------------------------------------------
(* State *)

VARIABLES
  upload,       \* request.files: [part, filename]
  workbook,     \* the sheets stored in the uploaded file
  pc,           \* position of convert
  workdir,      \* "none", "present" or "removed"
  files,        \* the PDF files in workdir: a set of [name, doc]
  sheet_names,  \* xls.sheet_names
  idx,          \* position of the for loop in sheet_names
  df,           \* the DataFrame of the current sheet
  pdf_paths,    \* line 125
  flashes,      \* flash() messages: [msg, category]
  response,     \* what convert hands back: [kind, archive]
  raised,       \* an exception is propagating out of convert
  reads,        \* log of the pd.read_excel calls: [sheet, attempt, engine, ok]
  outcomes,     \* log of the loop: "skipped" or "rendered" per processed sheet
  failure,      \* which fatal failure happened, "none" if none
  called,       \* helper functions: the function applied
  argName,      \* ... its sheet-name argument
  argCell,      \* ... its cell argument
  argGrid,      \* ... its sheet argument
  ret           \* ... its result

convertVars ==
  <<upload, workbook, pc, workdir, files, sheet_names, idx, df, pdf_paths,
    flashes, response, raised, reads, outcomes, failure>>

helperVars == <<called, argName, argCell, argGrid, ret>>

vars == <<convertVars, helperVars>>

NoResponse == [kind |-> "none", archive |-> <<>>]

NoDf == [columns |-> <<>>, rows |-> <<>>]

ConvertIdle ==
  /\ upload = [part |-> FALSE, filename |-> NoFilename]
  /\ workbook = <<>>
  /\ pc = "idle"
  /\ workdir = "none"
  /\ files = {}
  /\ sheet_names = <<>>
  /\ idx = 1
  /\ df = NoDf
  /\ pdf_paths = <<>>
  /\ flashes = <<>>
  /\ response = NoResponse
  /\ raised = FALSE
  /\ reads = <<>>
  /\ outcomes = <<>>
  /\ failure = "none"

HelperIdle ==
  /\ called = "none"
  /\ argName = <<>>
  /\ argCell = None
  /\ argGrid = <<>>
  /\ ret = <<>>

Init ==
  /\ upload \in [part : {FALSE}, filename : {NoFilename}]
                \cup [part : {TRUE}, filename : Filenames]
  /\ workbook \in IF upload.part /\ allowed_file(upload.filename)
                  THEN Workbooks ELSE {<<>>}
  /\ pc = "start"
  /\ workdir = "none"
  /\ files = {}
  /\ sheet_names = <<>>
  /\ idx = 1
  /\ df = NoDf
  /\ pdf_paths = <<>>
  /\ flashes = <<>>
  /\ response = NoResponse
  /\ raised = FALSE
  /\ reads = <<>>
  /\ outcomes = <<>>
  /\ failure = "none"
  /\ HelperIdle

----------------------------------------------------------------------------
(* convert, lines 95-233 *)

Flash(msg, category) == Append(flashes, [msg |-> msg, category |-> category])

Redirect == [kind |-> "redirect", archive |-> <<>>]

ServerError == [kind |-> "exception", archive |-> <<>>]

\* engine = 'openpyxl' if filename.lower().endswith('xlsx') else None
Engine(filename) == IF filename.ext = "xlsx" THEN "openpyxl" ELSE "default"

SheetGrid(name) ==
  (CHOOSE sh \in {workbook[k] : k \in 1..Len(workbook)} : sh.name = name).grid

ReadLog(attempt, engine, ok) ==
  Append(reads, [sheet |-> idx, attempt |-> attempt, engine |-> engine, ok |-> ok])

\* Writing a file replaces the file of the same name.
WriteFile_keep_first(fs, name, doc) ==
  IF \E f \in fs : f.name = name THEN fs
  ELSE fs \cup {[name |-> name, doc |-> doc]}

WriteFile(fs, name, doc) ==
  {f \in fs : f.name # name} \cup {[name |-> name, doc |-> doc]}

FileContent(fs, name) == (CHOOSE f \in fs : f.name = name).doc

\* lines 141-210: the document rendered for the current sheet
RenderedDoc(sheet_name, frame, sheet) ==
  [title     |-> reshape_rtl(TextCell(sheet_name)),
   data      |-> df_to_table_data(frame),
   page_size |-> PageSize(df_to_table_data(frame)),
   sheet     |-> sheet]

\* lines 97-108
RejectRequest ==
  /\ pc = "start"
  /\ \/ ~upload.part
     \/ upload.filename = NoFilename
     \/ ~allowed_file(upload.filename)
  /\ flashes' = Flash(IF ~upload.part THEN "No file part"
                      ELSE IF upload.filename = NoFilename THEN "No selected file"
                      ELSE "Unsupported file type", "danger")
  /\ response' = Redirect
  /\ pc' = "done"
  /\ UNCHANGED <<upload, workbook, workdir, files, sheet_names, idx, df,
                 pdf_paths, raised, reads, outcomes, failure, helperVars>>

\* lines 110-115
AcceptUpload ==
  /\ pc = "start"
  /\ upload.part
  /\ upload.filename # NoFilename
  /\ allowed_file(upload.filename)
  /\ workdir' = "present"
  /\ pc' = "open"
  /\ UNCHANGED <<upload, workbook, files, sheet_names, idx, df, pdf_paths,
                 flashes, response, raised, reads, outcomes, failure, helperVars>>

\* lines 118-120, 125
OpenWorkbook ==
  /\ pc = "open"
  /\ sheet_names' = [k \in 1..Len(workbook) |-> workbook[k].name]
  /\ pdf_paths' = <<>>
  /\ idx' = 1
  /\ pc' = "loop"
  /\ UNCHANGED <<upload, workbook, workdir, files, df, flashes, response,
                 raised, reads, outcomes, failure, helperVars>>

\* lines 121-123
OpenWorkbookFails ==
  /\ pc = "open"
  /\ flashes' = Flash("Failed to read Excel file", "danger")
  /\ response' = Redirect
  /\ failure' = "workbook"
  /\ pc' = "finally"
  /\ UNCHANGED <<upload, workbook, workdir, files, sheet_names, idx, df,
                 pdf_paths, raised, reads, outcomes, helperVars>>

\* lines 127-132
ReadSheetPrimary ==
  /\ pc = "loop"
  /\ idx <= Len(sheet_names)
  /\ df' = read_excel(SheetGrid(sheet_names[idx]))
  /\ reads' = ReadLog("primary", Engine(upload.filename), TRUE)
  /\ pc' = "process"
  /\ UNCHANGED <<upload, workbook, workdir, files, sheet_names, idx, pdf_paths,
                 flashes, response, raised, outcomes, failure, helperVars>>

ReadSheetPrimaryFails_no_fallback ==
  /\ pc = "loop"
  /\ idx <= Len(sheet_names)
  /\ reads' = ReadLog("primary", Engine(upload.filename), FALSE)
  /\ raised' = TRUE
  /\ response' = ServerError
  /\ failure' = "sheet_read"
  /\ pc' = "finally"
  /\ UNCHANGED <<upload, workbook, workdir, files, sheet_names, idx, df,
                 pdf_paths, flashes, outcomes, helperVars>>

\* lines 132-133: the extension-directed read raises
ReadSheetPrimaryFails ==
  /\ pc = "loop"
  /\ idx <= Len(sheet_names)
  /\ reads' = ReadLog("primary", Engine(upload.filename), FALSE)
  /\ pc' = "fallback"
  /\ UNCHANGED <<upload, workbook, workdir, files, sheet_names, idx, df,
                 pdf_paths, flashes, response, raised, outcomes, failure,
                 helperVars>>

\* line 134
ReadSheetFallback ==
  /\ pc = "fallback"
  /\ df' = read_excel(SheetGrid(sheet_names[idx]))
  /\ reads' = ReadLog("fallback", "default", TRUE)
  /\ pc' = "process"
  /\ UNCHANGED <<upload, workbook, workdir, files, sheet_names, idx, pdf_paths,
                 flashes, response, raised, outcomes, failure, helperVars>>

\* line 134 raises: nothing catches it before the finally block
ReadSheetFallbackFails ==
  /\ pc = "fallback"
  /\ reads' = ReadLog("fallback", "default", FALSE)
  /\ raised' = TRUE
  /\ response' = ServerError
  /\ failure' = "sheet_read"
  /\ pc' = "finally"
  /\ UNCHANGED <<upload, workbook, workdir, files, sheet_names, idx, df,
                 pdf_paths, flashes, outcomes, helperVars>>

\* lines 137-138
SkipEmptySheet ==
  /\ pc = "process"
  /\ IsEmptySheet(df)
  /\ outcomes' = Append(outcomes, "skipped")
  /\ idx' = idx + 1
  /\ pc' = "loop"
  /\ UNCHANGED <<upload, workbook, workdir, files, sheet_names, df, pdf_paths,
                 flashes, response, raised, reads, failure, helperVars>>

\* lines 141-212
RenderSheet ==
  /\ pc = "process"
  /\ ~IsEmptySheet(df)
  /\ LET pdf_filename == sanitize_filename(sheet_names[idx]) \o PdfSuffix
     IN  /\ files' = WriteFile(files, pdf_filename,
                               RenderedDoc(sheet_names[idx], df, idx))
         /\ pdf_paths' = Append(pdf_paths, pdf_filename)
  /\ outcomes' = Append(outcomes, "rendered")
  /\ idx' = idx + 1
  /\ pc' = "loop"
  /\ UNCHANGED <<upload, workbook, workdir, sheet_names, df, flashes, response,
                 raised, reads, failure, helperVars>>

RenderSheetFails_swallowed ==
  /\ pc = "process"
  /\ ~IsEmptySheet(df)
  /\ failure' = "render"
  /\ idx' = idx + 1
  /\ pc' = "loop"
  /\ UNCHANGED <<upload, workbook, workdir, files, sheet_names, df, pdf_paths,
                 flashes, response, raised, reads, outcomes, helperVars>>

\* lines 181-210: Paragraph(...) or doc.build(...) raises
RenderSheetFails ==
  /\ pc = "process"
  /\ ~IsEmptySheet(df)
  /\ raised' = TRUE
  /\ response' = ServerError
  /\ failure' = "render"
  /\ pc' = "finally"
  /\ UNCHANGED <<upload, workbook, workdir, files, sheet_names, idx, df,
                 pdf_paths, flashes, reads, outcomes, helperVars>>

NoSheetsWarning_le_one ==
  /\ pc = "loop"
  /\ idx > Len(sheet_names)
  /\ Len(pdf_paths) <= 1
  /\ flashes' = Flash("No non-empty sheets found", "warning")
  /\ response' = Redirect
  /\ pc' = "finally"
  /\ UNCHANGED <<upload, workbook, workdir, files, sheet_names, idx, df,
                 pdf_paths, raised, reads, outcomes, failure, helperVars>>

\* lines 214-216
NoSheetsWarning ==
  /\ pc = "loop"
  /\ idx > Len(sheet_names)
  /\ pdf_paths = <<>>
  /\ flashes' = Flash("No non-empty sheets found", "warning")
  /\ response' = Redirect
  /\ pc' = "finally"
  /\ UNCHANGED <<upload, workbook, workdir, files, sheet_names, idx, df,
                 pdf_paths, raised, reads, outcomes, failure, helperVars>>

\* lines 218-227
SendArchive ==
  /\ pc = "loop"
  /\ idx > Len(sheet_names)
  /\ pdf_paths # <<>>
  /\ response' =
       [kind    |-> "send_file",
        archive |-> [k \in 1..Len(pdf_paths) |->
                       [arcname |-> pdf_paths[k],
                        content |-> FileContent(files, pdf_paths[k])]]]
  /\ pc' = "finally"
  /\ UNCHANGED <<upload, workbook, workdir, files, sheet_names, idx, df,
                 pdf_paths, flashes, raised, reads, outcomes, failure,
                 helperVars>>

\* lines 228-231: shutil.rmtree(workdir) succeeds
Cleanup ==
  /\ pc = "finally"
  /\ workdir' = "removed"
  /\ files' = {}
  /\ pc' = "done"
  /\ UNCHANGED <<upload, workbook, sheet_names, idx, df, pdf_paths, flashes,
                 response, raised, reads, outcomes, failure, helperVars>>

\* lines 230-233: shutil.rmtree(workdir) raises and the error is swallowed
CleanupFails ==
  /\ pc = "finally"
  /\ pc' = "done"
  /\ UNCHANGED <<upload, workbook, workdir, files, sheet_names, idx, df,
                 pdf_paths, flashes, response, raised, reads, outcomes, failure,
                 helperVars>>

Next ==
  \/ RejectRequest
  \/ AcceptUpload
  \/ OpenWorkbook
  \/ OpenWorkbookFails
  \/ ReadSheetPrimary
  \/ ReadSheetPrimaryFails
  \/ ReadSheetFallback
  \/ ReadSheetFallbackFails
  \/ SkipEmptySheet
  \/ RenderSheet
  \/ RenderSheetFails
  \/ NoSheetsWarning
  \/ SendArchive
  \/ Cleanup
  \/ CleanupFails

Spec == Init /\ [][Next]_vars

----------------------------------------------------------------------------
(* sanitize_filename applied to bounded sheet names *)

\* a, space, / : | and the Arabic letter BEH
NameAlphabet == {97, 32, 47, 58, 124, BEH}

InitSanitize ==
  /\ ConvertIdle
  /\ called = "none"
  /\ argName \in SeqsUpTo(NameAlphabet, MaxNameLen)
  /\ argCell = None
  /\ argGrid = <<>>
  /\ ret = <<>>

CallSanitize ==
  /\ called = "none"
  /\ called' = "sanitize_filename"
  /\ ret' = sanitize_filename(argName)
  /\ UNCHANGED <<convertVars, argName, argCell, argGrid>>

SpecSanitize == InitSanitize /\ [][CallSanitize]_vars

----------------------------------------------------------------------------
(* reshape_rtl and df_to_table_data applied to bounded cells and sheets *)

CellInputs ==
  { None, NaN, IntCell(30), IntCell(0 - 5), TextCell(<<>>),
    TextCell(LatinText(1)), TextCell(ArabicText(1)),
    TextCell(<<ALEF, 32, BEH, BEH>>) }

CellOfKind(kind, c) ==
  IF kind = "latin" THEN TextCell(LatinText(c))
  ELSE IF kind = "arabic" THEN TextCell(ArabicText(c))
  ELSE EmptyCell

KindGrids ==
  UNION { [1..h -> [1..w -> {"empty", "latin", "arabic"}]] :
            h \in 0..MaxGridRows, w \in 1..MaxGridCols }

SmallGrids ==
  { [r \in DOMAIN g |-> [c \in DOMAIN g[r] |-> CellOfKind(g[r][c], c)]] :
      g \in KindGrids }

InitCells ==
  /\ ConvertIdle
  /\ called = "none"
  /\ argName = <<>>
  /\ argCell \in CellInputs
  /\ argGrid \in SmallGrids
  /\ ret = <<>>

CallReshape ==
  /\ called = "none"
  /\ called' = "reshape_rtl"
  /\ ret' = reshape_rtl(argCell)
  /\ UNCHANGED <<convertVars, argName, argCell, argGrid>>

CallTableData ==
  /\ called = "none"
  /\ called' = "df_to_table_data"
  /\ ret' = df_to_table_data(read_excel(argGrid))
  /\ UNCHANGED <<convertVars, argName, argCell, argGrid>>

NextCells == CallReshape \/ CallTableData

SpecCells == InitCells /\ [][NextCells]_vars

----------------------------------------------------------------------------
(* Vocabulary of the properties *)

Legal(ch) == ch \notin invalid

SetMin(S) == CHOOSE m \in S : \A x \in S : m <= x

\* Every cell in every row of the stored sheet is empty, header row included.
AllCellsEmpty(grid) ==
  \A r \in 1..Len(grid) : \A c \in 1..Len(grid[r]) : grid[r][c] = EmptyCell

IsNonEmptySheet(j) == ~AllCellsEmpty(workbook[j].grid)

NonEmptySheets == SelectSeq([j \in 1..Len(workbook) |-> j], IsNonEmptySheet)

\* convert has gone through every sheet without a fatal failure
AllSheetsProcessed ==
  /\ pc \in {"finally", "done"}
  /\ workdir # "none"
  /\ failure = "none"

PdfName(j) == sanitize_filename(workbook[j].name) \o PdfSuffix

Rendered(j) == j <= Len(outcomes) /\ outcomes[j] = "rendered"

----------------------------------------------------------------------------
(* Properties *)

\* C1: when the workbook read succeeds and every sheet has been processed,
\* pdf_paths holds exactly one document per sheet that has a non-empty cell,
\* the i-th entry being the document of the i-th such sheet.
C1_OnePerNonEmptySheet ==
  AllSheetsProcessed =>
    /\ Len(pdf_paths) = Len(NonEmptySheets)
    /\ \A k \in 1..Len(NonEmptySheets) :
          k <= Len(pdf_paths) => pdf_paths[k] = PdfName(NonEmptySheets[k])

\* C2: a processed sheet is skipped if and only if every cell of every row
\* of its grid, the header row included, is empty.
C2_SkippedIffAllEmpty ==
  \A j \in 1..Len(outcomes) :
     outcomes[j] = "skipped" <=> AllCellsEmpty(workbook[j].grid)

\* C3: once a fatal failure has happened (workbook read, both reads of a
\* sheet, rendering of a sheet) the response carries no archive and no
\* document, whatever was rendered before.
C3_NoArchiveWithFailure ==
  failure # "none" =>
    /\ response.kind # "send_file"
    /\ response.archive = <<>>

C3_Witness ==
  /\ pc = "done"
  /\ failure = "render"
  /\ Len(pdf_paths) >= 1
  /\ response = ServerError

\* C4: every run that created the working directory ends with the
\* directory and the files in it gone.
C4_WorkdirReleased ==
  (pc = "done" /\ workdir # "none") => (workdir = "removed" /\ files = {})

\* C5: after all sheets, the result is the warning redirect exactly when no
\* document was accumulated and the archive of pdf_paths otherwise; the
\* warning differs from the unreadable-workbook error by its category.
C5_EmptyResultIsWarning ==
  /\ AllSheetsProcessed =>
       /\ (pdf_paths = <<>>) <=> (response.kind = "redirect")
       /\ (pdf_paths # <<>>) <=> (response.kind = "send_file")
       /\ response.kind = "redirect" =>
            /\ response.archive = <<>>
            /\ Len(flashes) = 1
            /\ flashes[1].category = "warning"
       /\ response.kind = "send_file" =>
            /\ flashes = <<>>
            /\ Len(response.archive) = Len(pdf_paths)
            /\ \A k \in 1..Len(pdf_paths) :
                  response.archive[k].arcname = pdf_paths[k]
  /\ failure = "workbook" =>
       /\ response.kind = "redirect"
       /\ Len(flashes) = 1
       /\ flashes[1].category = "danger"

C5_Witness ==
  /\ pc = "done"
  /\ failure = "none"
  /\ Len(outcomes) = MaxSheets
  /\ pdf_paths = <<>>
  /\ response.kind = "redirect"
  /\ flashes[1].category = "warning"

C7_NullIsEmptyEverywhere ==
  /\ (called = "reshape_rtl" /\ argCell \in {None, NaN}) => ret = EmptyText
  /\ called = "df_to_table_data" =>
       \A r \in 1..Len(argGrid) : \A c \in 1..Len(argGrid[r]) :
          (argGrid[r][c] = EmptyCell /\ r <= Len(ret) /\ c <= Len(ret[r])) =>
            ret[r][c] = EmptyText

\* C7 as amended: reshape_rtl gives "" for None and the text "nan" for NaN;
\* in the grid built by df_to_table_data every empty cell of a data row
\* that lies inside the DataFrame is "" at its position, and an empty
\* header cell inside the DataFrame shows the label "Unnamed: <column>".
C7_NullIsEmptyInDataRows ==
  /\ (called = "reshape_rtl" /\ argCell = None) => ret = EmptyText
  /\ (called = "reshape_rtl" /\ argCell = NaN) => ret = <<110, 97, 110>>
  /\ called = "df_to_table_data" =>
       \A r \in 1..Len(argGrid) : \A c \in 1..Len(argGrid[r]) :
          (argGrid[r][c] = EmptyCell /\ r <= Len(ret) /\ c <= Len(ret[r])) =>
            IF r = 1 THEN ret[r][c] = UnnamedPrefix \o <<48 + (c - 1)>>
            ELSE ret[r][c] = EmptyText

C7_Witness ==
  /\ called = "df_to_table_data"
  /\ argGrid = <<<<EmptyCell, TextCell(LatinText(2))>>,
                 <<EmptyCell, TextCell(LatinText(2))>>>>
  /\ ret = <<<<UnnamedPrefix \o <<48>>, LatinText(2)>>,
             <<EmptyText, LatinText(2)>>>>

\* C8: a rendered sheet whose header row has 6 or fewer columns is on
\* portrait A4, one with 7 or more is on landscape A4.
C8_OrientationByHeaderWidth ==
  \A f \in files :
     LET width == Len(SheetData(workbook[f.doc.sheet].grid)[1])
     IN  /\ Len(f.doc.data[1]) = width
         /\ width <= 6 => f.doc.page_size = "A4"
         /\ width >= 7 => f.doc.page_size = "landscape(A4)"

C8_Witness ==
  /\ \E f \in files : Len(f.doc.data[1]) = 6 /\ f.doc.page_size = "A4"
  /\ \E f \in files : Len(f.doc.data[1]) = 7 /\ f.doc.page_size = "landscape(A4)"

\* C9: the fallback read is made for the very sheet whose extension-directed
\* read failed, and only then; a sheet read by the fallback is processed like
\* any other and the next sheet starts with the extension-directed read
\* again; convert fails on a sheet read only when the fallback failed too.
C9_FallbackPerSheet ==
  /\ \A k \in 1..Len(reads) :
        /\ reads[k].attempt = "primary" =>
             reads[k].engine = (IF upload.filename.ext = "xlsx"
                                THEN "openpyxl" ELSE "default")
        /\ reads[k].attempt = "fallback" =>
             /\ reads[k].engine = "default"
             /\ k > 1
             /\ reads[k - 1].attempt = "primary"
             /\ ~reads[k - 1].ok
             /\ reads[k - 1].sheet = reads[k].sheet
        /\ (reads[k].attempt = "primary" /\ ~reads[k].ok) =>
             IF k < Len(reads)
             THEN reads[k + 1].attempt = "fallback"
                  /\ reads[k + 1].sheet = reads[k].sheet
             ELSE pc = "fallback" /\ failure = "none"
        /\ (reads[k].ok /\ k < Len(reads)) =>
             /\ reads[k + 1].attempt = "primary"
             /\ reads[k + 1].sheet = reads[k].sheet + 1
             /\ Len(outcomes) >= reads[k].sheet
        /\ (reads[k].ok /\ k = Len(reads) /\ pc = "process") =>
             df = read_excel(workbook[reads[k].sheet].grid)
  /\ failure = "sheet_read" <=>
       /\ reads # <<>>
       /\ reads[Len(reads)].attempt = "fallback"
       /\ ~reads[Len(reads)].ok

C9_Witness ==
  /\ pc = "done"
  /\ response.kind = "send_file"
  /\ Len(reads) = 3
  /\ reads[1] = [sheet |-> 1, attempt |-> "primary", engine |-> "openpyxl", ok |-> FALSE]
  /\ reads[2] = [sheet |-> 1, attempt |-> "fallback", engine |-> "default", ok |-> TRUE]
  /\ reads[3] = [sheet |-> 2, attempt |-> "primary", engine |-> "openpyxl", ok |-> TRUE]
  /\ outcomes[1] = "rendered"

\* C10: sheets whose names sanitize to the same document name each add an
\* entry to the archive, and every entry of that name holds the document of
\* the last such sheet; the documents of the earlier ones are not in it.
C10_LastWriterWins ==
  response.kind = "send_file" =>
    /\ Len(response.archive) = Cardinality({j \in 1..Len(workbook) : Rendered(j)})
    /\ \A k \in 1..Len(response.archive) :
          LET writers == {j \in 1..Len(workbook) :
                            Rendered(j) /\ PdfName(j) = response.archive[k].arcname}
          IN  /\ writers # {}
              /\ response.archive[k].content.sheet = SetMax(writers)
              /\ response.archive[k].content.title =
                   reshape_rtl(TextCell(workbook[SetMax(writers)].name))
    /\ \A j, l \in 1..Len(workbook) :
          (Rendered(j) /\ Rendered(l) /\ j < l /\ PdfName(j) = PdfName(l)) =>
             \A k \in 1..Len(response.archive) :
                response.archive[k].content.sheet # j

C10_Witness ==
  /\ response.kind = "send_file"
  /\ Len(workbook) = 2
  /\ Rendered(1)
  /\ Rendered(2)
  /\ PdfName(1) = PdfName(2)
  /\ Len(response.archive) = 2
  /\ response.archive[1].content.sheet = 2

====
